---- MODULE Spec2Model ----
(***************************************************************************)
(* Smart Grid Guardian (src/app.py): the rule-based theft detector, the    *)
(* 15-row live log and the poll loop of the Streamlit script.              *)
(*                                                                         *)
(* Numbers.  Every electrical quantity is held in tenths of its unit       *)
(* (12.5 W is 125).  The readings drawn below carry at most one            *)
(* fractional digit, voltages are whole volts and currents are multiples   *)
(* of 0.5 A, so v * i is exact in binary floating point and no comparison  *)
(* of the source falls within rounding distance of its threshold: on       *)
(* these inputs the integer arithmetic here and Python's floats agree.     *)
(* A product of two quantities in tenths is in hundredths.                 *)
(***************************************************************************)
EXTENDS Integers, Sequences, FiniteSets

VARIABLES
    running,          \* st.session_state.running
    live_log,         \* st.session_state['live_log'], row 1 is the top row
    selected_device,  \* the "What is connected?" selectbox
    fieldMap,         \* the six "Map Fields" selectboxes
    pc,               \* where the script run stands
    raw_data,         \* what fetch_data() returned in this run
    result,           \* what check_physics_rules(raw_data) returned in this run
    banner,           \* the last thing written to top_banner
    now,              \* the wall clock, in sleeps elapsed
    calls,            \* provider calls made so far (history)
    waits,            \* idle waits completed so far (history)
    appended          \* every row ever put in the log, oldest first (history)

vars == <<running, live_log, selected_device, fieldMap, pc, raw_data, result,
          banner, now, calls, waits, appended>>

(***************************************************************************)
(* Configuration                                                           *)
(***************************************************************************)

\* The labels of the selectbox (sorted() only fixes the display order).
KNOWN_DEVICES ==
    {"1 LIGHT", "EMPTY", "2 LIGHTS", "PHONE", "LAPTOP", "LIGHT+LAPTOP",
     "PHONE+LIGHT", "LAPTOP+PHONE", "LIGHT+LAPTOP+PHONE"}

\* label -> <<min_w, max_w>>, in tenths of a watt.
SAFE_RANGES ==
    [d \in KNOWN_DEVICES |->
        CASE d = "EMPTY"              -> <<0, 0>>
          [] d = "PHONE"              -> <<50, 280>>
          [] d = "1 LIGHT"            -> <<340, 455>>
          [] d = "PHONE+LIGHT"        -> <<340, 680>>
          [] d = "LAPTOP"             -> <<150, 470>>
          [] d = "LAPTOP+PHONE"       -> <<270, 750>>
          [] d = "2 LIGHTS"           -> <<750, 860>>
          [] d = "LIGHT+LAPTOP"       -> <<500, 860>>
          [] d = "LIGHT+LAPTOP+PHONE" -> <<2, 1090>>]

ts_fields ==
    {"field1", "field2", "field3", "field4", "field5", "field6", "field7", "field8"}

\* The field mapping the selectboxes start with (index=0 .. index=5).
DefaultFieldMap ==
    [f_volt |-> "field1", f_curr |-> "field2", f_pow |-> "field3",
     f_freq |-> "field4", f_pf |-> "field5", f_egy |-> "field6"]

(***************************************************************************)
(* JSON values of a feed record, and Python's float() and truth value      *)
(***************************************************************************)

JNone      == [kind |-> "None", chars |-> <<>>, num |-> 0]
JStr(s)    == [kind |-> "str",  chars |-> s,    num |-> 0]
JNum(n)    == [kind |-> "num",  chars |-> <<>>, num |-> n]

Digits == {"0", "1", "2", "3", "4", "5", "6", "7", "8", "9"}

DigitVal(c) ==
    CASE c = "0" -> 0 [] c = "1" -> 1 [] c = "2" -> 2 [] c = "3" -> 3
      [] c = "4" -> 4 [] c = "5" -> 5 [] c = "6" -> 6 [] c = "7" -> 7
      [] c = "8" -> 8 [] c = "9" -> 9

RECURSIVE DigitsVal(_)
DigitsVal(s) ==
    IF s = <<>> THEN 0
    ELSE 10 * DigitsVal(SubSeq(s, 1, Len(s) - 1)) + DigitVal(s[Len(s)])

\* float(x) of a str: [sign] digits [. digits], anything else is ValueError.
\* The value is in tenths (the inputs carry at most one fractional digit).
ParseFloat(s) ==
    LET signed == s # <<>> /\ s[1] \in {"-", "+"}
        body   == IF signed THEN SubSeq(s, 2, Len(s)) ELSE s
        dots   == {k \in 1..Len(body) : body[k] = "."}
        dot    == IF dots = {} THEN Len(body) + 1 ELSE CHOOSE k \in dots : TRUE
        ipart  == SubSeq(body, 1, dot - 1)
        fpart  == SubSeq(body, dot + 1, Len(body))
        wellformed ==
            /\ Cardinality(dots) <= 1
            /\ \A k \in 1..Len(body) : body[k] \in Digits \cup {"."}
            /\ Len(ipart) + Len(fpart) > 0
        mag    == 10 * DigitsVal(ipart)
                  + (IF fpart = <<>> THEN 0 ELSE DigitVal(fpart[1]))
    IN  IF wellformed
        THEN [ok |-> TRUE, val |-> IF signed /\ s[1] = "-" THEN -mag ELSE mag]
        ELSE [ok |-> FALSE, val |-> 0]

\* float(x): a number is itself, a str is parsed, None is a TypeError.
float(x) ==
    CASE x.kind = "num"  -> [ok |-> TRUE, val |-> x.num]
      [] x.kind = "str"  -> ParseFloat(x.chars)
      [] x.kind = "None" -> [ok |-> FALSE, val |-> 0]

\* bool(x): None, "" and 0 are false.
truthy(x) ==
    CASE x.kind = "None" -> FALSE
      [] x.kind = "str"  -> x.chars # <<>>
      [] x.kind = "num"  -> x.num # 0

\* dict.get(key, default)
dict_get(d, key, default) == IF key \in DOMAIN d THEN d[key] ELSE default

\* The string 'null'.
NullText == JStr(<<"n", "u", "l", "l">>)

\* get(f) of check_physics_rules: [ok, val]; ok = FALSE is the exception
\* float() raises, which get does not catch.
get(data_json, f) ==
    IF truthy(dict_get(data_json, f, JNone)) /\ dict_get(data_json, f, JNone) # NullText
    THEN float(dict_get(data_json, f, JNum(0)))
    ELSE [ok |-> TRUE, val |-> 0]

(***************************************************************************)
(* check_physics_rules                                                     *)
(***************************************************************************)

NormalUsage   == [text |-> "Normal Usage", args |-> <<>>]
UnderPower(p, min_w) ==
    [text |-> "Under-Power (Read {p:.1f}W, Expected >{min_w}W)", args |-> <<p, min_w>>]
OverPower(p, max_w) ==
    [text |-> "Over-Power (Read {p:.1f}W, Expected <{max_w}W)", args |-> <<p, max_w>>]
CurrentBypass == [text |-> "Current Bypass Detected (V*I >> W)", args |-> <<>>]

\* RangeRule with the endpoints of the interval excluded.
RangeRule_EndpointsOut(device, p) ==
    IF device \in DOMAIN SAFE_RANGES
    THEN LET min_w == SAFE_RANGES[device][1]
             max_w == SAFE_RANGES[device][2]
         IN  IF p <= min_w THEN [is_theft |-> TRUE, reason |-> UnderPower(p, min_w)]
             ELSE IF p >= max_w THEN [is_theft |-> TRUE, reason |-> OverPower(p, max_w)]
             ELSE [is_theft |-> FALSE, reason |-> NormalUsage]
    ELSE [is_theft |-> FALSE, reason |-> NormalUsage]

\* RangeRule with a label that has no entry judged against (0.0, 0.0).
RangeRule_DefaultInterval(device, p) ==
    LET min_w == IF device \in DOMAIN SAFE_RANGES THEN SAFE_RANGES[device][1] ELSE 0
        max_w == IF device \in DOMAIN SAFE_RANGES THEN SAFE_RANGES[device][2] ELSE 0
    IN  IF p < min_w THEN [is_theft |-> TRUE, reason |-> UnderPower(p, min_w)]
        ELSE IF p > max_w THEN [is_theft |-> TRUE, reason |-> OverPower(p, max_w)]
        ELSE [is_theft |-> FALSE, reason |-> NormalUsage]

\* Lines 153-163: the verdict after the range rule.
RangeRule(device, p) ==
    IF device \in DOMAIN SAFE_RANGES
    THEN LET min_w == SAFE_RANGES[device][1]
             max_w == SAFE_RANGES[device][2]
         IN  IF p < min_w THEN [is_theft |-> TRUE, reason |-> UnderPower(p, min_w)]
             ELSE IF p > max_w THEN [is_theft |-> TRUE, reason |-> OverPower(p, max_w)]
             ELSE [is_theft |-> FALSE, reason |-> NormalUsage]
    ELSE [is_theft |-> FALSE, reason |-> NormalUsage]

\* Line 166: (apparent_power - p) > 50.0 and p > 5.0, v * i in hundredths.
BypassFires(v, i, p) == (v * i - 10 * p) > 5000 /\ p > 50

\* ApplyBypass that keeps the reason of a range rule that already fired.
ApplyBypass_KeepsRangeReason(verdict, v, i, p) ==
    IF BypassFires(v, i, p)
    THEN [is_theft |-> TRUE,
          reason |-> IF verdict.is_theft THEN verdict.reason ELSE CurrentBypass]
    ELSE verdict

\* Lines 165-168: the bypass rule applied on top of the range rule's verdict.
ApplyBypass(verdict, v, i, p) ==
    IF BypassFires(v, i, p)
    THEN [is_theft |-> TRUE, reason |-> CurrentBypass]
    ELSE verdict

Raised ==
    [state |-> "raised", is_theft |-> FALSE, reason |-> NormalUsage,
     v |-> 0, i |-> 0, p |-> 0, f |-> 0, pf |-> 0, e |-> 0]

\* check_physics_rules(data_json) with the globals it reads as parameters.
\* A payload that is no mapping has no .get, and any channel float() rejects
\* raises out of the function.
check_physics_rules(data_json, fm, device) ==
    IF data_json.kind # "dict" THEN Raised
    ELSE
    LET d  == data_json.fields
        v  == get(d, fm.f_volt)
        i  == get(d, fm.f_curr)
        p  == get(d, fm.f_pow)
        f  == get(d, fm.f_freq)
        pf == get(d, fm.f_pf)
        e  == get(d, fm.f_egy)
        verdict == ApplyBypass(RangeRule(device, p.val), v.val, i.val, p.val)
    IN  IF v.ok /\ i.ok /\ p.ok /\ f.ok /\ pf.ok /\ e.ok
        THEN [state |-> "ok", is_theft |-> verdict.is_theft,
              reason |-> verdict.reason,
              v |-> v.val, i |-> i.val, p |-> p.val,
              f |-> f.val, pf |-> pf.val, e |-> e.val]
        ELSE Raised

(***************************************************************************)
(* What the provider can answer                                            *)
(***************************************************************************)

\* fetch_data() returns None (exception, timeout, status other than 200) or
\* whatever JSON value the body holds: a mapping, or something else (-1).
NoData        == [kind |-> "None", fields |-> [k \in {} |-> JNone]]
Feed(d)       == [kind |-> "dict", fields |-> d]
NotAMapping   == [kind |-> "int",  fields |-> [k \in {} |-> JNone]]

\* `if raw_data:` None and the empty mapping are false, -1 is true.
usable(raw) ==
    CASE raw.kind = "None" -> FALSE
      [] raw.kind = "dict" -> DOMAIN raw.fields # {}
      [] raw.kind = "int"  -> TRUE

\* A record from a total assignment, "absent" marking the keys it lacks.
Absent == [kind |-> "absent", chars |-> <<>>, num |-> 0]
Record(t) == Feed([k \in {k \in DOMAIN t : t[k] # Absent} |-> t[k]])

Txt120  == JStr(<<"1", "2", "0">>)
Txt230  == JStr(<<"2", "3", "0">>)
TxtAbc  == JStr(<<"a", "b", "c">>)
Txt1_0  == JStr(<<"1", ".", "0">>)
Txt0_5  == JStr(<<"0", ".", "5">>)
Txt0    == JStr(<<"0">>)
Txt50_0 == JStr(<<"5", "0", ".", "0">>)
Txt0_9  == JStr(<<"0", ".", "9">>)
Txt10_0 == JStr(<<"1", "0", ".", "0">>)
Txt40_0 == JStr(<<"4", "0", ".", "0">>)

VoltValues == {Txt120, Txt230, Absent, TxtAbc}
CurrValues == {Txt1_0, Txt0_5, Txt0, JNone}
PowValues ==
    {Absent, JNone, JStr(<<>>), NullText, TxtAbc, JNum(0), JNum(125), Txt0,
     JStr(<<"0", ".", "1">>), JStr(<<"0", ".", "2">>), JStr(<<"4", ".", "9">>),
     JStr(<<"5", ".", "0">>), JStr(<<"5", ".", "1">>), JStr(<<"9", ".", "5">>),
     Txt10_0, JStr(<<"2", "8", ".", "0">>), JStr(<<"2", "8", ".", "1">>),
     JStr(<<"3", "4">>), Txt40_0, JStr(<<"4", "5", ".", "5">>),
     JStr(<<"4", "5", ".", "6">>), JStr(<<"7", "0", ".", "0">>),
     JStr(<<"1", "0", "9", ".", "0">>), JStr(<<"1", "0", "9", ".", "1">>),
     JStr(<<"1", "8", "0", ".", "0">>), JStr(<<"-", "5", ".", "0">>)}
FreqValues == {Txt50_0, JStr(<<"5", "0", "H", "z">>)}
PfValues   == {Txt0_9, Absent}
EgyValues  == {JStr(<<"1", ".", "2">>), JNone}

\* The records the detector is examined on.
Records ==
    {Record([field1 |-> v, field2 |-> i, field3 |-> p,
             field4 |-> f, field5 |-> pf, field6 |-> e]) :
        v \in VoltValues, i \in CurrValues, p \in PowValues,
        f \in FreqValues, pf \in PfValues, e \in EgyValues}

\* Field mappings: the default one, and one reading voltage and power from
\* the same field (duplicates are allowed by the selectboxes).
FieldMaps ==
    {DefaultFieldMap, [DefaultFieldMap EXCEPT !.f_volt = "field3"]}

\* A label SAFE_RANGES has no entry for (the selectbox never offers one).
UnmappedLabel == "FAN"

\* The answers in the poll-loop specification.
GoodRecord ==
    Record([field1 |-> Txt230, field2 |-> Txt0_5, field3 |-> Txt40_0,
            field4 |-> Txt50_0, field5 |-> Txt0_9, field6 |-> Txt0])
BypassRecord ==
    Record([field1 |-> Txt120, field2 |-> Txt1_0, field3 |-> Txt10_0,
            field4 |-> Txt50_0, field5 |-> Txt0_9, field6 |-> Txt0])
NoPowerRecord ==
    Record([field1 |-> Txt230, field2 |-> Txt0, field3 |-> Absent,
            field4 |-> Txt50_0, field5 |-> Txt0_9, field6 |-> Txt0])
BadFieldRecord ==
    Record([field1 |-> TxtAbc, field2 |-> Txt0_5, field3 |-> Txt40_0,
            field4 |-> Txt50_0, field5 |-> Txt0_9, field6 |-> Txt0])
EmptyRecord == Feed([k \in {} |-> JNone])

Responses ==
    {NoData, EmptyRecord, NotAMapping, GoodRecord, BypassRecord, NoPowerRecord,
     BadFieldRecord}
SteadyResponses == {NoData, GoodRecord}
DeviceChoices == {"1 LIGHT", "PHONE"}

(***************************************************************************)
(* The script                                                              *)
(***************************************************************************)

MaxCalls    == 3    \* provider calls in a behaviour of Spec
MaxLogCalls == 22   \* provider calls in a behaviour of LogSpec
MaxEmpty    == 2    \* cycles of LogSpec that append nothing
LogRows     == 15   \* .head(15)

NoResult ==
    [state |-> "none", is_theft |-> FALSE, reason |-> NormalUsage,
     v |-> 0, i |-> 0, p |-> 0, f |-> 0, pf |-> 0, e |-> 0]

Init ==
    /\ running = FALSE
    /\ live_log = <<>>
    /\ selected_device = "1 LIGHT"
    /\ fieldMap = DefaultFieldMap
    /\ pc = "top"
    /\ raw_data = NoData
    /\ result = NoResult
    /\ banner = "none"
    /\ now = 0
    /\ calls = 0
    /\ waits = 0
    /\ appended = <<>>

\* The on_click callback; Streamlit runs it and then the script from its top.
\* A click is served between script runs: when a run is about to start, or
\* after one has ended (by the else branch, or by an uncaught exception).
toggle_run ==
    /\ pc \in {"top", "stopped", "crashed"}
    /\ running' = ~running
    /\ pc' = "top"
    /\ raw_data' = NoData
    /\ result' = NoResult
    /\ UNCHANGED <<live_log, selected_device, fieldMap, banner, now, calls,
                   waits, appended>>

\* The device selectbox changes and the script starts over.
SelectDevice ==
    /\ pc \in {"top", "stopped", "crashed"}
    /\ \E d \in DeviceChoices \ {selected_device} : selected_device' = d
    /\ pc' = "top"
    /\ raw_data' = NoData
    /\ result' = NoResult
    /\ UNCHANGED <<running, live_log, fieldMap, banner, now, calls, waits,
                   appended>>

\* Line 204 false: the else branch of lines 298-299, and the run is over.
RunIdle ==
    /\ pc = "top"
    /\ ~running
    /\ banner' = "info"
    /\ pc' = "stopped"
    /\ UNCHANGED <<running, live_log, selected_device, fieldMap, raw_data,
                   result, now, calls, waits, appended>>

\* Line 204 true: fetch_data() is called (requests.get is on its way).
StartFetch(maxCalls) ==
    /\ pc = "top"
    /\ running
    /\ calls < maxCalls
    /\ calls' = calls + 1
    /\ pc' = "fetching"
    /\ UNCHANGED <<running, live_log, selected_device, fieldMap, raw_data,
                   result, banner, now, waits, appended>>

\* fetch_data() returns. maxEmpty caps the answers that are not usable.
fetch_data(responses, maxEmpty) ==
    /\ pc = "fetching"
    /\ \E r \in responses :
          /\ usable(r) \/ calls - 1 - Len(appended) < maxEmpty
          /\ raw_data' = r
    /\ pc' = "fetched"
    /\ UNCHANGED <<running, live_log, selected_device, fieldMap, result,
                   banner, now, calls, waits, appended>>

\* EmptyCycle that logs a row of zeros for the missed sample.
EmptyCycle_LogsZeroRow ==
    /\ pc = "fetched"
    /\ ~usable(raw_data)
    /\ banner' = "warning"
    /\ live_log' = SubSeq(<<[Time |-> now, Device |-> selected_device, Volts |-> 0,
                             Amps |-> 0, Watts |-> 0, Freq |-> 0, PF |-> 0,
                             Status |-> "OK"]>> \o live_log, 1,
                          IF Len(live_log) < LogRows THEN Len(live_log) + 1 ELSE LogRows)
    /\ pc' = "sleep"
    /\ UNCHANGED <<running, selected_device, fieldMap, raw_data, result, now,
                   calls, waits, appended>>

\* EmptyCycle that gives up monitoring when the provider has nothing.
EmptyCycle_StopsMonitoring ==
    /\ pc = "fetched"
    /\ ~usable(raw_data)
    /\ banner' = "warning"
    /\ running' = FALSE
    /\ pc' = "sleep"
    /\ UNCHANGED <<live_log, selected_device, fieldMap, raw_data, result, now,
                   calls, waits, appended>>

\* Lines 292-293: nothing usable came back.
EmptyCycle ==
    /\ pc = "fetched"
    /\ ~usable(raw_data)
    /\ banner' = "warning"
    /\ pc' = "sleep"
    /\ UNCHANGED <<running, live_log, selected_device, fieldMap, raw_data,
                   result, now, calls, waits, appended>>

\* Lines 232-241, the formats applied to values already in tenths.
new_row(t, device, r) ==
    [Time |-> t, Device |-> device, Volts |-> r.v, Amps |-> r.i,
     Watts |-> r.p, Freq |-> r.f, PF |-> r.pf,
     Status |-> IF r.is_theft THEN "THEFT" ELSE "OK"]

\* add_to_history that cuts one row too late.
add_to_history_OneTooMany(row, log) ==
    LET all == <<row>> \o log
    IN  SubSeq(all, 1, IF Len(all) < LogRows + 1 THEN Len(all) ELSE LogRows + 1)

\* Lines 244-247: pd.concat([new, log]).head(15)
add_to_history(row, log) ==
    LET all == <<row>> \o log
    IN  SubSeq(all, 1, IF Len(all) < LogRows THEN Len(all) ELSE LogRows)

\* Lines 208-290: classify, banner, row, log. An exception out of
\* check_physics_rules ends the run before anything is written.
ProcessRecord ==
    /\ pc = "fetched"
    /\ usable(raw_data)
    /\ LET r == check_physics_rules(raw_data, fieldMap, selected_device)
       IN  IF r.state = "raised"
           THEN /\ result' = r
                /\ pc' = "crashed"
                /\ UNCHANGED <<banner, live_log, appended>>
           ELSE /\ result' = r
                /\ banner' = (IF r.is_theft THEN "theft" ELSE "normal")
                /\ live_log' = add_to_history(new_row(now, selected_device, r), live_log)
                /\ appended' = Append(appended, new_row(now, selected_device, r))
                /\ pc' = "sleep"
    /\ UNCHANGED <<running, selected_device, fieldMap, raw_data, now, calls, waits>>

\* Lines 295-296: time.sleep(refresh_rate); st.rerun()
Sleep ==
    /\ pc = "sleep"
    /\ now' = now + 1
    /\ waits' = waits + 1
    /\ pc' = "top"
    /\ raw_data' = NoData
    /\ result' = NoResult
    /\ UNCHANGED <<running, live_log, selected_device, fieldMap, banner, calls,
                   appended>>

Next ==
    \/ toggle_run
    \/ SelectDevice
    \/ RunIdle
    \/ StartFetch(MaxCalls)
    \/ fetch_data(Responses, MaxCalls)
    \/ EmptyCycle
    \/ ProcessRecord
    \/ Sleep

Spec == Init /\ [][Next]_vars

\* Long runs on a steady feed with a few failures, for the log.
LogNext ==
    \/ toggle_run
    \/ RunIdle
    \/ StartFetch(MaxLogCalls)
    \/ fetch_data(SteadyResponses, MaxEmpty)
    \/ EmptyCycle
    \/ ProcessRecord
    \/ Sleep

LogSpec == Init /\ [][LogNext]_vars

\* The detector alone: line 207 reached with any record, mapping and label.
ClassifyInit ==
    /\ running = TRUE
    /\ live_log = <<>>
    /\ selected_device \in KNOWN_DEVICES \cup {UnmappedLabel}
    /\ fieldMap \in FieldMaps
    /\ pc = "fetched"
    /\ raw_data \in Records \cup {NoData, EmptyRecord, NotAMapping}
    /\ result = NoResult
    /\ banner = "none"
    /\ now = 0
    /\ calls = 1
    /\ waits = 0
    /\ appended = <<>>

ClassifyNext == EmptyCycle \/ ProcessRecord

ClassifySpec == ClassifyInit /\ [][ClassifyNext]_vars

(***************************************************************************)
(* Claims                                                                  *)
(***************************************************************************)

\* C1: the live log never holds more than 15 rows; it is always the newest
\* rows ever appended, newest first (so after 20 appends it is the last 15
\* and the 5 oldest are gone); and the step in which a cycle obtains its
\* classification puts that cycle's row on top. Empty cycles may fall
\* anywhere in between.
C1_LogIsNewestFifteen ==
    /\ [](/\ Len(live_log) <= 15
          /\ Len(live_log) = (IF Len(appended) < 15 THEN Len(appended) ELSE 15)
          /\ \A k \in 1..Len(live_log) :
                live_log[k] = appended[Len(appended) + 1 - k])
    /\ [][(result'.state = "ok" /\ result.state # "ok") =>
             /\ live_log' # <<>>
             /\ live_log'[1] = new_row(now, selected_device, result')
             /\ \A k \in 2..Len(live_log') : live_log'[k] = live_log[k - 1]]_vars

\* 20 rows appended with two empty cycles among them: rows 6..20 are kept.
C1_Witness ==
    /\ Len(appended) = 20
    /\ calls = 22
    /\ Len(live_log) = 15
    /\ live_log[15] = appended[6]
    /\ live_log[1] = appended[20]

\* C2: whenever voltage*current - realPower > 50.0 and realPower > 5.0 the
\* verdict is theft with the reason "Current Bypass Detected (V*I >> W)",
\* whatever the selected label (registered or not) and whatever the range
\* rule said.
C2_BypassOverrides ==
    (result.state = "ok" /\ result.v * result.i - 10 * result.p > 5000
                         /\ result.p > 50)
        => /\ result.is_theft
           /\ result.reason = [text |-> "Current Bypass Detected (V*I >> W)",
                               args |-> <<>>]

\* 120 V, 1.0 A, 10.0 W under PHONE: inside [5, 28], reported as bypass.
C2_Witness ==
    /\ result.state = "ok"
    /\ selected_device = "PHONE"
    /\ result.v = 1200 /\ result.i = 10 /\ result.p = 100
    /\ result.is_theft
    /\ result.reason.text = "Current Bypass Detected (V*I >> W)"

\* C3: for a registered label with interval [min, max], when the bypass rule
\* does not fire: realPower < min is theft with an Under-Power reason,
\* realPower > max is theft with an Over-Power reason, and
\* min <= realPower <= max is no theft with reason "Normal Usage".
C3_RangeRule ==
    (/\ result.state = "ok"
     /\ selected_device \in DOMAIN SAFE_RANGES
     /\ ~(result.v * result.i - 10 * result.p > 5000 /\ result.p > 50))
        => LET min_w == SAFE_RANGES[selected_device][1]
               max_w == SAFE_RANGES[selected_device][2]
               p     == result.p
           IN  /\ p < min_w =>
                    /\ result.is_theft
                    /\ result.reason.text
                         = "Under-Power (Read {p:.1f}W, Expected >{min_w}W)"
                    /\ result.reason.args = <<p, min_w>>
               /\ p > max_w =>
                    /\ result.is_theft
                    /\ result.reason.text
                         = "Over-Power (Read {p:.1f}W, Expected <{max_w}W)"
                    /\ result.reason.args = <<p, max_w>>
               /\ (min_w <= p /\ p <= max_w) =>
                    /\ ~result.is_theft
                    /\ result.reason = [text |-> "Normal Usage", args |-> <<>>]

\* PHONE at its lower endpoint 5.0 W: normal.
C3_Witness ==
    /\ result.state = "ok"
    /\ selected_device = "PHONE"
    /\ result.p = 50
    /\ ~result.is_theft
    /\ result.reason.text = "Normal Usage"

\* C4: normalization never raises: after a mapping has been processed there
\* is a classification, and every channel whose field is absent, null,
\* empty or not a number reads 0.0.
C4_NormalizationNeverRaises ==
    (pc # "fetched" /\ raw_data.kind = "dict" /\ usable(raw_data))
        => /\ result.state = "ok"
           /\ \A ch \in DOMAIN fieldMap :
                 LET x == dict_get(raw_data.fields, fieldMap[ch], JNone)
                     val == CASE ch = "f_volt" -> result.v
                              [] ch = "f_curr" -> result.i
                              [] ch = "f_pow"  -> result.p
                              [] ch = "f_freq" -> result.f
                              [] ch = "f_pf"   -> result.pf
                              [] ch = "f_egy"  -> result.e
                 IN  (~truthy(x) \/ ~float(x).ok) => val = 0

\* C5: while running, no processing condition ends polling: a script run
\* never ends without the next one scheduled. ("crashed": the run ended in
\* an uncaught exception before time.sleep and st.rerun were reached, and
\* nothing runs again until a widget is touched.)
C5_PollingNeverEnds == running => pc # "crashed"

\* C6: no provider call while idle; once running, each cycle makes one
\* provider call followed by one idle wait, and a provider call starts only
\* when every earlier call and its wait have finished.
C6_OneCallOneWaitPerCycle ==
    /\ [](pc = "fetching" => running)
    /\ [][calls' # calls => (running /\ calls' = calls + 1 /\ waits = calls)]_vars
    /\ [][(pc = "fetched" /\ pc' # "fetched") => pc' = "sleep"]_vars
    /\ [][waits' # waits => (waits' = waits + 1 /\ waits' = calls)]_vars

\* What is left of C6 when a cycle may end in an exception (C4): no call
\* while idle, calls start one at a time at the top of a run, and a wait
\* follows a call of its own.
C6_CallsNeverOverlap ==
    /\ [](pc = "fetching" => running)
    /\ [][calls' # calls => (running /\ pc = "top" /\ calls' = calls + 1)]_vars
    /\ [][waits' # waits => (pc = "sleep" /\ waits' = waits + 1 /\ waits' <= calls)]_vars

C8_TheftIsRangeOrBypass ==
    result.state = "ok" =>
        LET p      == result.p
            bypass == result.v * result.i - 10 * p > 5000 /\ p > 50
            range  == /\ selected_device \in DOMAIN SAFE_RANGES
                      /\ \/ p < SAFE_RANGES[selected_device][1]
                         \/ p > SAFE_RANGES[selected_device][2]
        IN  /\ result.is_theft = (range \/ bypass)
            /\ selected_device \notin DOMAIN SAFE_RANGES =>
                  /\ result.is_theft = bypass
                  /\ ~bypass => result.reason = [text |-> "Normal Usage",
                                                 args |-> <<>>]

\* An unregistered label, 180.0 W, bypass quiet: normal usage.
C8_Witness ==
    /\ result.state = "ok"
    /\ selected_device \notin DOMAIN SAFE_RANGES
    /\ result.p = 1800
    /\ ~(result.v * result.i - 10 * result.p > 5000)
    /\ ~result.is_theft

\* C9: for every record without the field mapped to power, realPower is 0.0,
\* and the verdict is Normal Usage under EMPTY and Under-Power theft under
\* PHONE, whatever the other channels hold.
C9_MissingPowerField ==
    (/\ pc # "fetched"
     /\ raw_data.kind = "dict" /\ usable(raw_data)
     /\ fieldMap.f_pow \notin DOMAIN raw_data.fields)
        => /\ result.state = "ok"
           /\ result.p = 0
           /\ selected_device = "EMPTY" =>
                 /\ ~result.is_theft
                 /\ result.reason.text = "Normal Usage"
           /\ selected_device = "PHONE" =>
                 /\ result.is_theft
                 /\ result.reason.text
                      = "Under-Power (Read {p:.1f}W, Expected >{min_w}W)"

\* C9 for the records whose mapped channels all parse (otherwise C9 fails
\* with C4): realPower is 0.0, EMPTY is normal, PHONE is Under-Power.
C9_HoldsWhenEveryChannelParses ==
    (/\ result.state = "ok"
     /\ raw_data.kind = "dict"
     /\ fieldMap.f_pow \notin DOMAIN raw_data.fields)
        => /\ result.p = 0
           /\ selected_device = "EMPTY" =>
                 /\ ~result.is_theft
                 /\ result.reason.text = "Normal Usage"
           /\ selected_device = "PHONE" =>
                 /\ result.is_theft
                 /\ result.reason.text
                      = "Under-Power (Read {p:.1f}W, Expected >{min_w}W)"
                 /\ result.reason.args = <<0, 50>>

\* C10: running starts false and only the toggle changes it, by flipping it.
C10_OnlyToggleChangesRunning ==
    /\ running = FALSE
    /\ [][running' # running => (toggle_run /\ running' = ~running)]_vars

\* Started, a row logged, a wait completed, stopped again.
C10_Witness ==
    /\ ~running
    /\ pc = "stopped"
    /\ waits >= 1
    /\ appended # <<>>

====
